---------------------------- MODULE Spec2Model ----------------------------
(***************************************************************************)
(* secp256k1 reference arithmetic: the wNAF table generator                *)
(* (gen_secp256k1_wnaf_table.py) and the verification suite (tests.py).    *)
(*                                                                         *)
(* Every routine is a pure function of its arguments; the state of the     *)
(* model is the arguments of a call, the locals of a running loop and the  *)
(* value (or exception) a call ended with.                                 *)
(*                                                                         *)
(* SCALING.  The source fixes the 256-bit secp256k1 parameters.  TLC's     *)
(* integers are 32-bit, so P, N, GX, GY below are those of the curve       *)
(* y^2 = x^3 + 7 over the 8-bit prime field F_163.  It is chosen to share  *)
(* the properties of secp256k1 the code's case analysis rests on:          *)
(*   - P is prime, P % 3 = 1 and P % 4 = 3;                                *)
(*   - the group has prime order N (cofactor 1), so there is no point of   *)
(*     order 2 (no point with y = 0);                                      *)
(*   - N < P < 2N and N, P have the same bit length;                       *)
(*   - 7 is a non-residue (no point with x = 0);                           *)
(*   - a point with x = N exists (so r = R.x % N = 0 is possible).         *)
(* Hash and HMAC outputs are scaled with it: qlen = bit_length(N) bits.    *)
(* All routines are translated unchanged; only the four numbers differ.    *)
(***************************************************************************)
EXTENDS Integers, Sequences, FiniteSets, TLC

\* ---- Curve params (tests.py 32-36, gen_secp256k1_wnaf_table.py 29-31) ----
P == 163
N == 139
GX == 2
GY == 34

\* ------------------------------------------------------------------------
\* Values.  A Point is None (infinity) or a pair; a call that raises is
\* modelled by a tagged outcome instead of a value.
\* ------------------------------------------------------------------------
INF == [kind |-> "None", x |-> 0, y |-> 0]

Affine(x, y) == [kind |-> "affine", x |-> x, y |-> y]

\* the outcome of a point routine that let ZeroDivisionError escape
PointZeroDivisionError == [kind |-> "ZeroDivisionError", x |-> 0, y |-> 0]

\* the outcome of an integer routine: a returned value or a raised exception
Returned(v) == [exc |-> "", val |-> v]

Raised(e) == [exc |-> e, val |-> 0]

\* the outcome of a boolean routine
ReturnedBool(b) == [exc |-> "", val |-> b]

RaisedBool(e) == [exc |-> e, val |-> FALSE]

G == Affine(GX, GY)

\* ------------------------------------------------------------------------
\* gen_secp256k1_wnaf_table.py
\* ------------------------------------------------------------------------

\* Python's three-argument pow(b, e, m) for e >= 0, m > 0
RECURSIVE pow(_, _, _)
pow(b, e, m) ==
    IF e = 0 THEN 1 % m
    ELSE IF e % 2 = 1 THEN ((b % m) * pow(b, e - 1, m)) % m
    ELSE LET h == pow(b, e \div 2, m) IN (h * h) % m

\* def inv(a): return pow(a, P-2, P)
inv(a) == pow(a, P - 2, P)

\* the value dbl hands to inv
dbl_den(P1) == (2 * P1.y) % P

dbl(P1) ==
    IF P1 = INF THEN INF
    ELSE IF P1.y = 0 THEN INF
    ELSE LET lam == ((3 * P1.x * P1.x) * inv(dbl_den(P1))) % P
             x3 == (lam * lam - 2 * P1.x) % P
             y3 == (lam * (P1.x - x3) - P1.y) % P
         IN Affine(x3, y3)

\* the value add hands to inv
add_den(P1, P2) == (P2.x - P1.x) % P

add(P1, P2) ==
    IF P1 = INF THEN P2
    ELSE IF P2 = INF THEN P1
    ELSE IF P1.x = P2.x
         THEN IF (P1.y + P2.y) % P = 0 THEN INF ELSE dbl(P1)
    ELSE LET lam == ((P2.y - P1.y) * inv(add_den(P1, P2))) % P
             x3 == (lam * lam - P1.x - P2.x) % P
             y3 == (lam * (P1.x - x3) - P1.y) % P
         IN Affine(x3, y3)

\* the arguments of the inv calls a call of dbl / add makes
dbl_inverts(P1) ==
    IF P1 = INF THEN {}
    ELSE IF P1.y = 0 THEN {}
    ELSE {dbl_den(P1)}

add_inverts(P1, P2) ==
    IF P1 = INF THEN {}
    ELSE IF P2 = INF THEN {}
    ELSE IF P1.x = P2.x
         THEN IF (P1.y + P2.y) % P = 0 THEN {} ELSE dbl_inverts(P1)
    ELSE {add_den(P1, P2)}

\* 1 << n
shl1(n) == 2 ^ n

\* gen_table's locals after "num = ..; G = ..; twoG = dbl(G); pts = []; cur = G"
gen_table_entry(W) ==
    [num |-> shl1(W - 1), twoG |-> dbl(G), pts |-> <<>>, cur |-> G, i |-> 0]

\* mutant: the step is G instead of 2G
gen_table_body_adds_G(st) ==
    [st EXCEPT !.pts = Append(st.pts, st.cur),
               !.cur = add(st.cur, G),
               !.i = st.i + 1]

\* one pass of "for _ in range(num)": pts.append(cur); cur = add(cur, twoG)
gen_table_body(st) ==
    [st EXCEPT !.pts = Append(st.pts, st.cur),
               !.cur = add(st.cur, st.twoG),
               !.i = st.i + 1]

\* ------------------------------------------------------------------------
\* tests.py: math helpers
\* ------------------------------------------------------------------------

\* the while loop of mod_inv: returns <<t, r>> at exit (newr = 0)
RECURSIVE ExtendedEuclid(_, _, _, _)
ExtendedEuclid(t, newt, r, newr) ==
    IF newr = 0 THEN <<t, r>>
    ELSE LET q == r \div newr
         IN ExtendedEuclid(newt, t - q * newt, newr, r - q * newr)

\* mutant: the final "t % m" forgotten
mod_inv_unreduced(a, m) ==
    LET a1 == a % m IN
    IF a1 = 0 THEN Raised("ZeroDivisionError")
    ELSE LET tr == ExtendedEuclid(0, 1, m, a1) IN
         IF tr[2] # 1 THEN Raised("ZeroDivisionError")
         ELSE Returned(tr[1])

mod_inv(a, m) ==
    LET a1 == a % m IN
    IF a1 = 0 THEN Raised("ZeroDivisionError")
    ELSE LET tr == ExtendedEuclid(0, 1, m, a1) IN
         IF tr[2] # 1 THEN Raised("ZeroDivisionError")
         ELSE Returned(tr[1] % m)

is_on_curve(Pt) ==
    IF Pt = INF THEN TRUE
    ELSE IF ~(0 <= Pt.x /\ Pt.x < P /\ 0 <= Pt.y /\ Pt.y < P) THEN FALSE
    ELSE (Pt.y * Pt.y - (Pt.x * Pt.x * Pt.x + 7)) % P = 0

point_neg(Pt) ==
    IF Pt = INF THEN INF ELSE Affine(Pt.x, (-Pt.y) % P)

\* the value point_double hands to mod_inv
point_double_den(A) == 2 * A.y

point_double(A) ==
    IF A = INF THEN INF
    ELSE IF A.y = 0 THEN INF
    ELSE LET i == mod_inv(point_double_den(A), P) IN
         IF i.exc # "" THEN PointZeroDivisionError
         ELSE LET lam == ((3 * A.x * A.x) * i.val) % P
                  x3 == (lam * lam - 2 * A.x) % P
                  y3 == (lam * (A.x - x3) - A.y) % P
              IN Affine(x3, y3)

\* the value point_add hands to mod_inv
point_add_den(A, B) == B.x - A.x

\* mutant: the doubling case "A == B" not delegated to point_double
point_add_no_doubling(A, B) ==
    IF A = INF THEN B
    ELSE IF B = INF THEN A
    ELSE IF A.x = B.x /\ (A.y + B.y) % P = 0 THEN INF
    ELSE LET i == mod_inv(point_add_den(A, B), P) IN
         IF i.exc # "" THEN PointZeroDivisionError
         ELSE LET lam == ((B.y - A.y) * i.val) % P
                  x3 == (lam * lam - A.x - B.x) % P
                  y3 == (lam * (A.x - x3) - A.y) % P
              IN Affine(x3, y3)

point_add(A, B) ==
    IF A = INF THEN B
    ELSE IF B = INF THEN A
    ELSE IF A.x = B.x
         THEN IF (A.y + B.y) % P = 0 THEN INF ELSE point_double(A)
    ELSE LET i == mod_inv(point_add_den(A, B), P) IN
         IF i.exc # "" THEN PointZeroDivisionError
         ELSE LET lam == ((B.y - A.y) * i.val) % P
                  x3 == (lam * lam - A.x - B.x) % P
                  y3 == (lam * (A.x - x3) - A.y) % P
              IN Affine(x3, y3)

\* the arguments of the mod_inv calls a call of point_double / point_add makes
point_double_inverts(A) ==
    IF A = INF THEN {}
    ELSE IF A.y = 0 THEN {}
    ELSE {point_double_den(A)}

point_add_inverts(A, B) ==
    IF A = INF THEN {}
    ELSE IF B = INF THEN {}
    ELSE IF A.x = B.x
         THEN IF (A.y + B.y) % P = 0 THEN {} ELSE point_double_inverts(A)
    ELSE {point_add_den(A, B)}

\* "k %= N; if k == 0 or Pt is None: return None"
scalar_mul_returns_early(k, Pt) == k % N = 0 \/ Pt = INF

\* the locals of scalar_mul when the loop is entered: k reduced, R = None, Q = Pt
scalar_mul_entry(k, Pt) == [k |-> k % N, R |-> INF, Q |-> Pt, raised |-> FALSE]

\* mutant: the add is made for the clear bits instead of the set ones
scalar_mul_body_wrong_bit(st) ==
    LET R1 == IF st.k % 2 = 0 THEN point_add(st.R, st.Q) ELSE st.R
        Q1 == point_double(st.Q)
    IN IF R1 = PointZeroDivisionError \/ Q1 = PointZeroDivisionError
       THEN [k |-> st.k, R |-> st.R, Q |-> st.Q, raised |-> TRUE]
       ELSE [k |-> st.k \div 2, R |-> R1, Q |-> Q1, raised |-> FALSE]

\* mutant: Q is doubled before it is added
scalar_mul_body_double_first(st) ==
    LET Q1 == point_double(st.Q)
        R1 == IF st.k % 2 = 1 THEN point_add(st.R, Q1) ELSE st.R
    IN IF R1 = PointZeroDivisionError \/ Q1 = PointZeroDivisionError
       THEN [k |-> st.k, R |-> st.R, Q |-> st.Q, raised |-> TRUE]
       ELSE [k |-> st.k \div 2, R |-> R1, Q |-> Q1, raised |-> FALSE]

\* the body of scalar_mul's while loop on its locals k, R, Q; "raised" is set
\* when point_add or point_double let an exception escape
scalar_mul_body(st) ==
    LET R1 == IF st.k % 2 = 1 THEN point_add(st.R, st.Q) ELSE st.R
        Q1 == point_double(st.Q)
    IN IF R1 = PointZeroDivisionError \/ Q1 = PointZeroDivisionError
       THEN [k |-> st.k, R |-> st.R, Q |-> st.Q, raised |-> TRUE]
       ELSE [k |-> st.k \div 2, R |-> R1, Q |-> Q1, raised |-> FALSE]

RECURSIVE scalar_mul_loop(_)
scalar_mul_loop(st) ==
    IF st.raised THEN PointZeroDivisionError
    ELSE IF st.k > 0 THEN scalar_mul_loop(scalar_mul_body(st))
    ELSE st.R

scalar_mul(k, Pt) ==
    IF scalar_mul_returns_early(k, Pt) THEN INF
    ELSE scalar_mul_loop(scalar_mul_entry(k, Pt))

\* int.bit_length()
RECURSIVE bit_length(_)
bit_length(n) == IF n = 0 THEN 0 ELSE 1 + bit_length(n \div 2)

\* ------------------------------------------------------------------------
\* tests.py: RFC6979 deterministic k (HMAC-SHA256)
\*
\* Byte strings are sequences of integers 0..255.  The hash is scaled with
\* the curve: its digest has holen = 1 byte, so that holen * 8 = qlen as for
\* SHA-256 and secp256k1, and a private key is encoded on keylen = 1 byte.
\* ------------------------------------------------------------------------

\* hashlib.sha256().digest_size
holen == 1

\* the width of privkey.to_bytes(32, "big")
keylen == 1

\* qlen = N.bit_length()
qlen == bit_length(N)

\* rolen = (qlen + 7) // 8
rolen == (qlen + 7) \div 8

\* int.from_bytes(b, "big")
RECURSIVE from_bytes(_)
from_bytes(b) ==
    IF b = <<>> THEN 0
    ELSE 256 * from_bytes(SubSeq(b, 1, Len(b) - 1)) + b[Len(b)]

\* v.to_bytes(n, "big"), for 0 <= v < 256^n
to_bytes(v, n) == [i \in 1..n |-> (v \div (256 ^ (n - i))) % 256]

\* b"\xNN" * n
bytes_of(byte, n) == [i \in 1..n |-> byte]

bits2int(b) ==
    LET i == from_bytes(b)
        blen == Len(b) * 8
    IN IF blen > qlen THEN i \div (2 ^ (blen - qlen)) ELSE i

int2octets(v) == to_bytes(v, rolen)

bits2octets(b) == int2octets(bits2int(b) % N)

\* mutant: the lower end of the accepted range off by one
rfc6979_k_accepts_zero(k) == 0 <= k /\ k < N

\* "if 1 <= k < N: return k"
rfc6979_k_accepts(k) == 1 <= k /\ k < N

\* hmac.new(K, msg, hashlib.sha256).digest() is a fixed function of (K, msg)
\* whose values the model does not compute: tab holds its value at every
\* argument asked so far.  A question asked before has its recorded answer;
\* a first question may have any answer of fresh.
hmac_answers(tab, K, msg, fresh) ==
    IF <<K, msg>> \in DOMAIN tab THEN {tab[<<K, msg>>]} ELSE fresh

\* the function after it answered out at (K, msg)
hmac_record(tab, K, msg, out) ==
    IF <<K, msg>> \in DOMAIN tab THEN tab ELSE (<<K, msg>> :> out) @@ tab

\* V || 0x00 || x || bits2octets(h1)  and  V || 0x01 || x || bits2octets(h1)
rfc6979_k_seed_msg(V, tag, privkey, h1) ==
    V \o <<tag>> \o to_bytes(privkey, keylen) \o bits2octets(h1)

\* V || 0x00
rfc6979_k_reseed_msg(V) == V \o <<0>>

\* ------------------------------------------------------------------------
\* tests.py: ECDSA.  z is hashlib.sha256(msg).digest(); k is what
\* rfc6979_k(privkey, z) returned.
\* ------------------------------------------------------------------------
SigReturned(r, s) == [exc |-> "", r |-> r, s |-> s]

SigRaised(e) == [exc |-> e, r |-> 0, s |-> 0]

\* mutant: the "s == 0" check forgotten
ecdsa_sign_no_s_check(privkey, z, k) ==
    IF ~(1 <= privkey /\ privkey < N) THEN SigRaised("ValueError")
    ELSE LET R == scalar_mul(k, G) IN
    IF R = PointZeroDivisionError THEN SigRaised("ZeroDivisionError")
    ELSE IF R = INF THEN SigRaised("AssertionError")
    ELSE LET r == R.x % N IN
    IF r = 0 THEN SigRaised("RuntimeError r=0")
    ELSE LET ki == mod_inv(k, N) IN
    IF ki.exc # "" THEN SigRaised(ki.exc)
    ELSE SigReturned(r, (ki.val * ((from_bytes(z) % N) + r * privkey)) % N)

ecdsa_sign(privkey, z, k) ==
    IF ~(1 <= privkey /\ privkey < N) THEN SigRaised("ValueError")
    ELSE LET R == scalar_mul(k, G) IN
    IF R = PointZeroDivisionError THEN SigRaised("ZeroDivisionError")
    ELSE IF R = INF THEN SigRaised("AssertionError")
    ELSE LET r == R.x % N IN
    IF r = 0 THEN SigRaised("RuntimeError r=0")
    ELSE LET ki == mod_inv(k, N) IN
    IF ki.exc # "" THEN SigRaised(ki.exc)
    ELSE LET s == (ki.val * ((from_bytes(z) % N) + r * privkey)) % N IN
    IF s = 0 THEN SigRaised("RuntimeError s=0")
    ELSE SigReturned(r, s)

\* the tail of ecdsa_verify, after the checks of pub, r and s; modN tells
\* whether X[0] is reduced mod N before it is compared with r
ecdsa_verify_tail(pub, z, r, s, modN) ==
    LET zi == from_bytes(z) % N
        w == mod_inv(s, N)
    IN
    IF w.exc # "" THEN RaisedBool(w.exc)
    ELSE LET u1 == (zi * w.val) % N
             u2 == (r * w.val) % N
             P1 == scalar_mul(u1, G)
             P2 == scalar_mul(u2, pub)
    IN
    IF P1 = PointZeroDivisionError \/ P2 = PointZeroDivisionError
    THEN RaisedBool("ZeroDivisionError")
    ELSE LET X == point_add(P1, P2) IN
    IF X = PointZeroDivisionError THEN RaisedBool("ZeroDivisionError")
    ELSE IF X = INF THEN ReturnedBool(FALSE)
    ELSE ReturnedBool((IF modN THEN X.x % N ELSE X.x) = r)

\* mutant: X[0] compared with r without "% N"
ecdsa_verify_no_mod(pub, z, sig) ==
    IF pub = INF THEN ReturnedBool(FALSE)
    ELSE IF ~is_on_curve(pub) THEN ReturnedBool(FALSE)
    ELSE IF ~(1 <= sig[1] /\ sig[1] < N /\ 1 <= sig[2] /\ sig[2] < N)
         THEN ReturnedBool(FALSE)
    ELSE ecdsa_verify_tail(pub, z, sig[1], sig[2], FALSE)

\* mutant: the range check of r and s forgotten
ecdsa_verify_no_range(pub, z, sig) ==
    IF pub = INF THEN ReturnedBool(FALSE)
    ELSE IF ~is_on_curve(pub) THEN ReturnedBool(FALSE)
    ELSE ecdsa_verify_tail(pub, z, sig[1], sig[2], TRUE)

ecdsa_verify(pub, z, sig) ==
    IF pub = INF THEN ReturnedBool(FALSE)
    ELSE IF ~is_on_curve(pub) THEN ReturnedBool(FALSE)
    ELSE IF ~(1 <= sig[1] /\ sig[1] < N /\ 1 <= sig[2] /\ sig[2] < N)
         THEN ReturnedBool(FALSE)
    ELSE ecdsa_verify_tail(pub, z, sig[1], sig[2], TRUE)

\* ------------------------------------------------------------------------
\* Input domains
\* ------------------------------------------------------------------------

\* every Point value the data model admits: infinity and the on-curve pairs
CurvePoints ==
    {INF} \cup {pt \in {Affine(x, y) : x \in 0..(P - 1), y \in 0..(P - 1)} :
                   is_on_curve(pt)}

\* pairs that are no Point: a coordinate outside [0, P), or off the curve
BadPoints ==
    {pt \in {Affine(x, y) : x \in {-1, 0, 1, GX, P - 1, P},
                            y \in {-1, 0, 1, GY, GY + 1, P - 1, P}} :
        ~is_on_curve(pt)}

\* integers handed to the inversion routines: -MaxA .. MaxA
MaxA == 330

\* scalars handed to scalar_mul: 0 .. MaxK
MaxK == 290

\* window sizes handed to gen_table: 1 .. MaxW
MaxW == 8

\* digests: the values 0 .. MaxDigest, N and the largest one
MaxDigest == 1

Digests ==
    {to_bytes(v, holen) : v \in (0..MaxDigest) \cup {N, 256 ^ holen - 1}}

\* private keys handed to ecdsa_sign: every valid one and the invalid
\* ones next to the range
PrivKeyInputs == (-1)..(N + 1)

\* signature components handed to ecdsa_verify: both ends of [1, N-1] and
\* the invalid values next to them
MaxSig == 3

SigInputs == ((-1)..MaxSig) \cup ((N - MaxSig)..(N + 1))

\* what the HMAC function answers: a candidate below, inside and above
\* the accepted range
HmacOutputs == {to_bytes(v, holen) : v \in {0, N - 1, N}}

\* rfc6979_k's arguments in the nonce specification
NoncePrivKeys == {N - 1}

NonceDigests == {to_bytes(v, holen) : v \in {N, 256 ^ holen - 1}}

\* every value rfc6979_k can return: an accepted candidate of qlen bits
rfc6979_k_values == {k \in 0..(2 ^ qlen - 1) : rfc6979_k_accepts(k)}

NotCalled == [exc |-> "not called", val |-> 0]

NotCalledBool == [exc |-> "not called", val |-> FALSE]

NoPoint == [kind |-> "not called", x |-> 0, y |-> 0]

NoSig == [exc |-> "not called", r |-> 0, s |-> 0]

\* ------------------------------------------------------------------------
\* State
\* ------------------------------------------------------------------------
VARIABLES
    inv_a,          \* the argument of inv / mod_inv(., P)
    inv_out,        \* what inv(a) ended with
    mod_inv_out,    \* what mod_inv(a, P) ended with
    grp_A, grp_B,   \* the arguments of a group-law call
    grp_call,       \* the routine called: point_add, point_double, add, dbl
    grp_out,        \* what it ended with
    grp_inverted,   \* the values it handed to inv / mod_inv
    sm_k, sm_Pt,    \* the arguments of scalar_mul
    sm_pc,          \* "call", "loop", "return", "raise" ("idle": no call)
    sm_st,          \* the locals k, R, Q of the running loop
    sm_iters,       \* iterations of the while loop so far
    sm_out,         \* the value returned
    gt_W,           \* the argument of gen_table
    gt_pc,          \* "call", "loop", "return" ("idle": no call)
    gt_st,          \* the locals num, twoG, pts, cur and the loop counter
    gt_out,         \* the list returned
    n_priv, n_h1,   \* the arguments of rfc6979_k
    n_pc,           \* "call", "generate", "return" ("idle": no call)
    n_K, n_V,       \* the locals K and V
    n_k,            \* the value returned
    hmac_tab,       \* the HMAC function at the arguments asked so far
    e_priv,         \* ecdsa_sign's privkey
    e_z,            \* sha256(msg).digest() of the message signed / verified
    e_k,            \* the nonce rfc6979_k returned to ecdsa_sign
    e_sig,          \* what ecdsa_sign ended with
    e_pub,          \* ecdsa_verify's pub
    e_vsig,         \* ecdsa_verify's sig
    e_pc,           \* "sign", "failed", "verify", "verified" ("idle")
    e_ok            \* what ecdsa_verify ended with

invVars == <<inv_a, inv_out, mod_inv_out>>

grpVars == <<grp_A, grp_B, grp_call, grp_out, grp_inverted>>

smVars == <<sm_k, sm_Pt, sm_pc, sm_st, sm_iters, sm_out>>

gtVars == <<gt_W, gt_pc, gt_st, gt_out>>

nonceVars == <<n_priv, n_h1, n_pc, n_K, n_V, n_k, hmac_tab>>

ecdsaVars == <<e_priv, e_z, e_k, e_sig, e_pub, e_vsig, e_pc, e_ok>>

vars == <<invVars, grpVars, smVars, gtVars, nonceVars, ecdsaVars>>

InvIdle == inv_a = 0 /\ inv_out = NotCalled /\ mod_inv_out = NotCalled

GrpIdle ==
    /\ grp_A = INF /\ grp_B = INF /\ grp_call = ""
    /\ grp_out = NoPoint /\ grp_inverted = {}

SmIdle ==
    /\ sm_k = 0 /\ sm_Pt = INF /\ sm_pc = "idle"
    /\ sm_st = scalar_mul_entry(0, INF) /\ sm_iters = 0 /\ sm_out = NoPoint

GtIdle ==
    /\ gt_W = 1 /\ gt_pc = "idle" /\ gt_st = gen_table_entry(1) /\ gt_out = <<>>

NonceIdle ==
    /\ n_priv = 1 /\ n_h1 = <<>> /\ n_pc = "idle"
    /\ n_K = <<>> /\ n_V = <<>> /\ n_k = 0 /\ hmac_tab = <<>>

EcdsaIdle ==
    /\ e_priv = 0 /\ e_z = <<>> /\ e_k = 0 /\ e_sig = NoSig
    /\ e_pub = INF /\ e_vsig = <<0, 0>> /\ e_pc = "idle" /\ e_ok = NotCalledBool

\* ------------------------------------------------------------------------
\* Field inversion: inv(a) and mod_inv(a, P) on the same argument
\* ------------------------------------------------------------------------
InvInit ==
    /\ inv_a \in (-MaxA)..MaxA
    /\ inv_out = NotCalled /\ mod_inv_out = NotCalled
    /\ GrpIdle /\ SmIdle /\ GtIdle /\ NonceIdle /\ EcdsaIdle

CallInv ==
    /\ inv_out = NotCalled
    /\ inv_out' = Returned(inv(inv_a))
    /\ UNCHANGED <<inv_a, mod_inv_out>>
    /\ UNCHANGED <<grpVars, smVars, gtVars, nonceVars, ecdsaVars>>

CallModInv ==
    /\ mod_inv_out = NotCalled
    /\ mod_inv_out' = mod_inv(inv_a, P)
    /\ UNCHANGED <<inv_a, inv_out>>
    /\ UNCHANGED <<grpVars, smVars, gtVars, nonceVars, ecdsaVars>>

InvNext == CallInv \/ CallModInv

SpecInv == InvInit /\ [][InvNext]_vars

\* ------------------------------------------------------------------------
\* Group law: one call of point_add / point_double / add / dbl
\* ------------------------------------------------------------------------
GrpInit ==
    /\ grp_A \in CurvePoints /\ grp_B \in CurvePoints
    /\ grp_call = "" /\ grp_out = NoPoint /\ grp_inverted = {}
    /\ InvIdle /\ SmIdle /\ GtIdle /\ NonceIdle /\ EcdsaIdle

CallPointAdd ==
    /\ grp_call = ""
    /\ grp_call' = "point_add"
    /\ grp_out' = point_add(grp_A, grp_B)
    /\ grp_inverted' = point_add_inverts(grp_A, grp_B)
    /\ UNCHANGED <<grp_A, grp_B>>
    /\ UNCHANGED <<invVars, smVars, gtVars, nonceVars, ecdsaVars>>

CallPointDouble ==
    /\ grp_call = ""
    /\ grp_call' = "point_double"
    /\ grp_out' = point_double(grp_A)
    /\ grp_inverted' = point_double_inverts(grp_A)
    /\ UNCHANGED <<grp_A, grp_B>>
    /\ UNCHANGED <<invVars, smVars, gtVars, nonceVars, ecdsaVars>>

CallAdd ==
    /\ grp_call = ""
    /\ grp_call' = "add"
    /\ grp_out' = add(grp_A, grp_B)
    /\ grp_inverted' = add_inverts(grp_A, grp_B)
    /\ UNCHANGED <<grp_A, grp_B>>
    /\ UNCHANGED <<invVars, smVars, gtVars, nonceVars, ecdsaVars>>

CallDbl ==
    /\ grp_call = ""
    /\ grp_call' = "dbl"
    /\ grp_out' = dbl(grp_A)
    /\ grp_inverted' = dbl_inverts(grp_A)
    /\ UNCHANGED <<grp_A, grp_B>>
    /\ UNCHANGED <<invVars, smVars, gtVars, nonceVars, ecdsaVars>>

GrpNext == CallPointAdd \/ CallPointDouble \/ CallAdd \/ CallDbl

SpecGrp == GrpInit /\ [][GrpNext]_vars

\* ------------------------------------------------------------------------
\* scalar_mul(k, Pt), one loop iteration per step
\* ------------------------------------------------------------------------
SmInit ==
    /\ sm_k \in 0..MaxK /\ sm_Pt \in CurvePoints
    /\ sm_pc = "call" /\ sm_st = scalar_mul_entry(0, INF)
    /\ sm_iters = 0 /\ sm_out = NoPoint
    /\ InvIdle /\ GrpIdle /\ GtIdle /\ NonceIdle /\ EcdsaIdle

\* k %= N; if k == 0 or Pt is None: return None
SmReturnEarly ==
    /\ sm_pc = "call" /\ scalar_mul_returns_early(sm_k, sm_Pt)
    /\ sm_pc' = "return" /\ sm_out' = INF
    /\ UNCHANGED <<sm_k, sm_Pt, sm_st, sm_iters>>
    /\ UNCHANGED <<invVars, grpVars, gtVars, nonceVars, ecdsaVars>>

\* k %= N; R = None; Q = Pt
SmEnter ==
    /\ sm_pc = "call" /\ ~scalar_mul_returns_early(sm_k, sm_Pt)
    /\ sm_pc' = "loop" /\ sm_st' = scalar_mul_entry(sm_k, sm_Pt)
    /\ UNCHANGED <<sm_k, sm_Pt, sm_iters, sm_out>>
    /\ UNCHANGED <<invVars, grpVars, gtVars, nonceVars, ecdsaVars>>

\* while k > 0: one pass of the body
SmIterate ==
    /\ sm_pc = "loop" /\ sm_st.k > 0
    /\ sm_st' = scalar_mul_body(sm_st)
    /\ sm_pc' = IF sm_st'.raised THEN "raise" ELSE "loop"
    /\ sm_iters' = sm_iters + 1
    /\ UNCHANGED <<sm_k, sm_Pt, sm_out>>
    /\ UNCHANGED <<invVars, grpVars, gtVars, nonceVars, ecdsaVars>>

\* the loop condition fails: return R
SmReturn ==
    /\ sm_pc = "loop" /\ sm_st.k = 0
    /\ sm_pc' = "return" /\ sm_out' = sm_st.R
    /\ UNCHANGED <<sm_k, sm_Pt, sm_st, sm_iters>>
    /\ UNCHANGED <<invVars, grpVars, gtVars, nonceVars, ecdsaVars>>

SmNext == SmReturnEarly \/ SmEnter \/ SmIterate \/ SmReturn

SpecSm == SmInit /\ [][SmNext]_vars

\* ------------------------------------------------------------------------
\* gen_table(W), one loop iteration per step
\* ------------------------------------------------------------------------
GtInit ==
    /\ gt_W \in 1..MaxW
    /\ gt_pc = "call" /\ gt_st = gen_table_entry(1) /\ gt_out = <<>>
    /\ InvIdle /\ GrpIdle /\ SmIdle /\ NonceIdle /\ EcdsaIdle

GtEnter ==
    /\ gt_pc = "call"
    /\ gt_pc' = "loop" /\ gt_st' = gen_table_entry(gt_W)
    /\ UNCHANGED <<gt_W, gt_out>>
    /\ UNCHANGED <<invVars, grpVars, smVars, nonceVars, ecdsaVars>>

\* for _ in range(num): one pass
GtIterate ==
    /\ gt_pc = "loop" /\ gt_st.i < gt_st.num
    /\ gt_st' = gen_table_body(gt_st)
    /\ UNCHANGED <<gt_W, gt_pc, gt_out>>
    /\ UNCHANGED <<invVars, grpVars, smVars, nonceVars, ecdsaVars>>

\* return pts
GtReturn ==
    /\ gt_pc = "loop" /\ gt_st.i >= gt_st.num
    /\ gt_pc' = "return" /\ gt_out' = gt_st.pts
    /\ UNCHANGED <<gt_W, gt_st>>
    /\ UNCHANGED <<invVars, grpVars, smVars, nonceVars, ecdsaVars>>

GtNext == GtEnter \/ GtIterate \/ GtReturn

SpecGt == GtInit /\ [][GtNext]_vars

\* ------------------------------------------------------------------------
\* rfc6979_k(privkey, h1): the seeding, then one pass of "while True" per step
\* ------------------------------------------------------------------------
NonceInit ==
    /\ n_priv \in NoncePrivKeys /\ n_h1 \in NonceDigests
    /\ n_pc = "call" /\ n_K = <<>> /\ n_V = <<>> /\ n_k = 0 /\ hmac_tab = <<>>
    /\ InvIdle /\ GrpIdle /\ SmIdle /\ GtIdle /\ EcdsaIdle

\* lines 154-179: V = 01.., K = 00.., then K, V, K, V updated by HMAC
NonceSeed ==
    /\ n_pc = "call"
    /\ LET V0 == bytes_of(1, holen)
           K0 == bytes_of(0, holen)
           m1 == rfc6979_k_seed_msg(V0, 0, n_priv, n_h1)
       IN
       \E K1 \in hmac_answers(hmac_tab, K0, m1, HmacOutputs) :
         LET t1 == hmac_record(hmac_tab, K0, m1, K1) IN
         \E V1 \in hmac_answers(t1, K1, V0, HmacOutputs) :
           LET t2 == hmac_record(t1, K1, V0, V1)
               m3 == rfc6979_k_seed_msg(V1, 1, n_priv, n_h1)
           IN
           \E K2 \in hmac_answers(t2, K1, m3, HmacOutputs) :
             LET t3 == hmac_record(t2, K1, m3, K2) IN
             \E V2 \in hmac_answers(t3, K2, V1, HmacOutputs) :
               /\ hmac_tab' = hmac_record(t3, K2, V1, V2)
               /\ n_K' = K2 /\ n_V' = V2
    /\ n_pc' = "generate"
    /\ UNCHANGED <<n_priv, n_h1, n_k>>
    /\ UNCHANGED <<invVars, grpVars, smVars, gtVars, ecdsaVars>>

\* lines 182-188: T = b""; while len(T) < rolen: V = HMAC(K, V); T += V
\* (holen >= rolen: one pass); k = bits2int(T) is accepted and returned
NonceReturn ==
    /\ n_pc = "generate"
    /\ \E V1 \in hmac_answers(hmac_tab, n_K, n_V, HmacOutputs) :
         /\ rfc6979_k_accepts(bits2int(V1))
         /\ hmac_tab' = hmac_record(hmac_tab, n_K, n_V, V1)
         /\ n_V' = V1 /\ n_k' = bits2int(V1)
    /\ n_pc' = "return"
    /\ UNCHANGED <<n_priv, n_h1, n_K>>
    /\ UNCHANGED <<invVars, grpVars, smVars, gtVars, ecdsaVars>>

\* lines 182-190: the candidate is refused;
\* K = HMAC(K, V || 0x00); V = HMAC(K, V); next pass
NonceRetry ==
    /\ n_pc = "generate"
    /\ \E V1 \in hmac_answers(hmac_tab, n_K, n_V, HmacOutputs) :
         /\ ~rfc6979_k_accepts(bits2int(V1))
         /\ LET t1 == hmac_record(hmac_tab, n_K, n_V, V1)
                m2 == rfc6979_k_reseed_msg(V1)
            IN
            \E K1 \in hmac_answers(t1, n_K, m2, HmacOutputs) :
              LET t2 == hmac_record(t1, n_K, m2, K1) IN
              \E V2 \in hmac_answers(t2, K1, V1, HmacOutputs) :
                /\ hmac_tab' = hmac_record(t2, K1, V1, V2)
                /\ n_K' = K1 /\ n_V' = V2
    /\ UNCHANGED <<n_priv, n_h1, n_pc, n_k>>
    /\ UNCHANGED <<invVars, grpVars, smVars, gtVars, ecdsaVars>>

NonceNext == NonceSeed \/ NonceReturn \/ NonceRetry

SpecNonce == NonceInit /\ [][NonceNext]_vars

\* the interpreter runs the loop as long as it can: a pass that can be
\* taken is taken
\* A pass that reseeds to the very (K, V) it started from leaves every
\* variable unchanged: the code then repeats that pass forever, and a
\* behaviour shows this as stuttering in a state with n_pc = "generate".
FairSpecNonce == NonceInit /\ [][NonceNext]_vars /\ WF_vars(NonceNext)

\* ------------------------------------------------------------------------
\* ECDSA: main()'s round trip  pub = scalar_mul(priv, G);
\* sig = ecdsa_sign(priv, msg); ok = ecdsa_verify(pub, msg, sig)
\* ------------------------------------------------------------------------
EcdsaInit ==
    /\ e_priv \in PrivKeyInputs /\ e_z \in Digests
    /\ e_k = 0 /\ e_sig = NoSig /\ e_pub = INF /\ e_vsig = <<0, 0>>
    /\ e_pc = "sign" /\ e_ok = NotCalledBool
    /\ InvIdle /\ GrpIdle /\ SmIdle /\ GtIdle /\ NonceIdle

\* pub = scalar_mul(priv, G); sig = ecdsa_sign(priv, msg), whose nonce k is
\* any value rfc6979_k can return
EcdsaSign ==
    /\ e_pc = "sign"
    /\ e_pub' = scalar_mul(e_priv, G)
    /\ \E k \in rfc6979_k_values :
         LET sg == ecdsa_sign(e_priv, e_z, k) IN
         /\ e_sig' = sg
         /\ e_k' = IF sg.exc = "ValueError" THEN 0 ELSE k
         /\ e_vsig' = IF sg.exc = "" THEN <<sg.r, sg.s>> ELSE e_vsig
         /\ e_pc' = IF sg.exc = "" THEN "verify" ELSE "failed"
    /\ UNCHANGED <<e_priv, e_z, e_ok>>
    /\ UNCHANGED <<invVars, grpVars, smVars, gtVars, nonceVars>>

EcdsaVerify ==
    /\ e_pc = "verify"
    /\ e_ok' = ecdsa_verify(e_pub, e_z, e_vsig)
    /\ e_pc' = "verified"
    /\ UNCHANGED <<e_priv, e_z, e_k, e_sig, e_pub, e_vsig>>
    /\ UNCHANGED <<invVars, grpVars, smVars, gtVars, nonceVars>>

EcdsaNext == EcdsaSign \/ EcdsaVerify

SpecEcdsa == EcdsaInit /\ [][EcdsaNext]_vars

\* ------------------------------------------------------------------------
\* ecdsa_verify on arbitrary arguments
\* ------------------------------------------------------------------------
VerifyInit ==
    /\ e_pub \in CurvePoints \cup BadPoints
    /\ e_vsig \in SigInputs \X SigInputs
    /\ e_z \in Digests
    /\ e_priv = 0 /\ e_k = 0 /\ e_sig = NoSig
    /\ e_pc = "verify" /\ e_ok = NotCalledBool
    /\ InvIdle /\ GrpIdle /\ SmIdle /\ GtIdle /\ NonceIdle

VerifyNext == EcdsaVerify

SpecVerify == VerifyInit /\ [][VerifyNext]_vars

\* ------------------------------------------------------------------------
\* Reference for the claims: n*p as p added to itself n times, starting
\* from infinity.  RepeatedAdd[p] is <<0*p, 1*p, ..., >> with more than N
\* entries, built in runs to keep the recursion shallow.
\* ------------------------------------------------------------------------
RECURSIVE AddRun(_, _, _)
AddRun(q, p, n) ==
    IF n = 0 THEN <<>>
    ELSE LET run == AddRun(q, p, n - 1)
         IN Append(run, point_add(IF n = 1 THEN q ELSE run[n - 1], p))

RepeatedAddRunLen == 2 * bit_length(N)

RECURSIVE RepeatedAddRow(_, _)
RepeatedAddRow(p, n) ==
    IF n <= 0 THEN <<INF>>
    ELSE LET row == RepeatedAddRow(p, n - RepeatedAddRunLen)
         IN row \o AddRun(row[Len(row)], p, RepeatedAddRunLen)

RepeatedAdd == [p \in CurvePoints |-> RepeatedAddRow(p, N)] @@ <<>>

\* n*p for 0 <= n <= N and p a Point
NaiveMul(n, p) == RepeatedAdd[p][n + 1]

InRange(v, lo, hi) == lo <= v /\ v <= hi

\* ------------------------------------------------------------------------
\* Claims
\* ------------------------------------------------------------------------

\* C1: round trip.  Whenever ecdsa_sign(d, m) returns a signature for a
\* private key d in [1, N-1], ecdsa_verify(scalar_mul(d, G), m, sig)
\* returns True (it does not raise and does not return False).
C1_RoundTrip ==
    e_pc = "verified" =>
        /\ InRange(e_priv, 1, N - 1)
        /\ e_pub = scalar_mul(e_priv, G)
        /\ e_vsig = <<e_sig.r, e_sig.s>>
        /\ e_ok = ReturnedBool(TRUE)

C1_Witness ==
    /\ e_pc = "verified" /\ e_priv = N - 1
    /\ scalar_mul(e_k, G).x >= N /\ e_ok = ReturnedBool(TRUE)

\* C2: ecdsa_verify never raises; it returns a boolean for every pub
\* (infinity, a point, or a pair that is no point), digest and integer pair
\* (r, s), and returns False when pub is infinity or not on the curve or
\* when r or s is outside [1, N-1].
C2_VerifyNeverRaises ==
    e_pc = "verified" =>
        /\ e_ok.exc = ""
        /\ e_ok.val \in BOOLEAN
        /\ (e_pub = INF \/ ~is_on_curve(e_pub)) => e_ok.val = FALSE
        /\ ~InRange(e_vsig[1], 1, N - 1) => e_ok.val = FALSE
        /\ ~InRange(e_vsig[2], 1, N - 1) => e_ok.val = FALSE

C2_Witness ==
    /\ e_pc = "verified"
    /\ e_pub # INF /\ is_on_curve(e_pub) /\ e_pub # G
    /\ InRange(e_vsig[1], 1, N - 1) /\ InRange(e_vsig[2], 1, N - 1)
    /\ e_ok = ReturnedBool(TRUE)

\* C3: for a = 0 (mod P) each inversion routine raises ZeroDivisionError and
\* returns no value: inv(a) of the table generator and mod_inv(a, P).
C3_InversionOfZeroRaises ==
    inv_a % P = 0 =>
        /\ inv_out # NotCalled => inv_out.exc = "ZeroDivisionError"
        /\ mod_inv_out # NotCalled => mod_inv_out.exc = "ZeroDivisionError"

\* C4: for a # 0 (mod P), inv(a) and mod_inv(a, P) return the same b,
\* with 0 <= b < P and a*b = 1 (mod P).
C4_InversionPathsAgree ==
    (inv_a % P # 0 /\ inv_out # NotCalled /\ mod_inv_out # NotCalled) =>
        /\ inv_out.exc = "" /\ mod_inv_out.exc = ""
        /\ inv_out.val = mod_inv_out.val
        /\ InRange(inv_out.val, 0, P - 1)
        /\ (inv_a * inv_out.val) % P = 1

C4_Witness ==
    /\ inv_a < -P /\ inv_a % P = P - 1
    /\ inv_out = Returned(P - 1) /\ mod_inv_out = Returned(P - 1)

\* C5: gen_table(W) returns exactly 2^(W-1) entries, and entry i (from 0)
\* is (2i+1)*G: it equals scalar_mul(2i+1, G) and G added to itself
\* (2i+1) mod N times.
C5_GenTableOddMultiples ==
    gt_pc = "return" =>
        /\ Len(gt_out) = 2 ^ (gt_W - 1)
        /\ \A i \in 0..(Len(gt_out) - 1) :
             /\ gt_out[i + 1] = scalar_mul(2 * i + 1, G)
             /\ gt_out[i + 1] = NaiveMul((2 * i + 1) % N, G)

C5_Witness ==
    /\ gt_pc = "return" /\ gt_W = 4 /\ Len(gt_out) = 8
    /\ gt_out[1] = G /\ gt_out[2] = point_add(G, point_double(G))
    /\ gt_out[8] = scalar_mul(15, G)

\* C6: scalar_mul(k, p) returns (k mod N)*p, that is p added to itself
\* k mod N times from infinity; it returns infinity when k mod N = 0 or p is
\* infinity; R + k*Q (over the loop's locals) stays (k mod N)*p; nothing is
\* raised; the loop makes at most bit_length(N) iterations.
C6_ScalarMulComputes ==
    /\ sm_pc # "raise"
    /\ sm_iters <= bit_length(N)
    /\ sm_pc = "loop" =>
         point_add(sm_st.R, NaiveMul(sm_st.k, sm_st.Q))
             = NaiveMul(sm_k % N, sm_Pt)
    /\ sm_pc = "return" =>
         /\ sm_out = NaiveMul(sm_k % N, sm_Pt)
         /\ (sm_k % N = 0 \/ sm_Pt = INF) => sm_out = INF
         /\ sm_out = scalar_mul(sm_k, sm_Pt)

C6_Witness ==
    /\ sm_pc = "return" /\ sm_k > N /\ sm_iters = bit_length(N)
    /\ sm_Pt # G /\ sm_out # INF /\ sm_out = NaiveMul(sm_k - N, sm_Pt)

\* C7: scalar_mul(N, G) is infinity and scalar_mul(N-1, G) is
\* point_neg(G) = (GX, P - GY).
C7_GroupOrder ==
    (sm_pc = "return" /\ sm_Pt = G) =>
        /\ sm_k = N => sm_out = INF
        /\ sm_k = N - 1 =>
             sm_out = point_neg(G) /\ sm_out = Affine(GX, P - GY)

C7_Witness ==
    /\ sm_pc = "return" /\ sm_Pt = G /\ sm_k = N - 1
    /\ sm_out = Affine(GX, P - GY)

\* C8: ecdsa_sign raises ValueError (InvalidKey) for a privkey outside
\* [1, N-1]; for a valid one it fails (AssertionError / RuntimeError:
\* NonceFailure) when R = k*G is infinity, when r = R.x mod N is 0 and when
\* s is 0 (that is z + r*privkey = 0 mod N); nothing else is raised, and
\* every pair it returns has r and s in [1, N-1].
C8_SignOutcomes ==
    e_pc \in {"failed", "verify", "verified"} =>
        /\ e_sig.exc \in {"", "ValueError", "AssertionError",
                          "RuntimeError r=0", "RuntimeError s=0"}
        /\ e_sig.exc = "ValueError" <=> ~InRange(e_priv, 1, N - 1)
        /\ InRange(e_priv, 1, N - 1) =>
             LET R == NaiveMul(e_k, G)
                 r == R.x % N
                 z == from_bytes(e_z) % N
             IN /\ R = INF <=> e_sig.exc = "AssertionError"
                /\ (R # INF /\ r = 0) <=> e_sig.exc = "RuntimeError r=0"
                /\ (R # INF /\ r # 0 /\ (z + r * e_priv) % N = 0)
                      <=> e_sig.exc = "RuntimeError s=0"
        /\ e_sig.exc = "" =>
             InRange(e_sig.r, 1, N - 1) /\ InRange(e_sig.s, 1, N - 1)

C8_Witness ==
    /\ e_pc = "failed" /\ InRange(e_priv, 1, N - 1)
    /\ e_sig.exc = "RuntimeError s=0"

C10_GroupLawClosed ==
    grp_call # "" =>
        /\ \A v \in grp_inverted : v % P # 0
        /\ grp_out # PointZeroDivisionError
        /\ \/ grp_out = INF
           \/ /\ grp_out.kind = "affine"
              /\ InRange(grp_out.x, 0, P - 1) /\ InRange(grp_out.y, 0, P - 1)
              /\ (grp_out.y * grp_out.y) % P
                   = (grp_out.x * grp_out.x * grp_out.x + 7) % P

C10_Witness ==
    /\ grp_call = "point_add" /\ grp_A = grp_B /\ grp_A # INF
    /\ grp_inverted = {2 * grp_A.y} /\ grp_out.kind = "affine"

=============================================================================
